---------------------------- MODULE Spec2Model ----------------------------
(***************************************************************************)
(* boundedinfinity/enumeration: the enumer generator and the companion it  *)
(* generates.                                                              *)
(*                                                                         *)
(* Two versions of the generator are in the repository:                    *)
(*   "main_go"  : src/cmd/enumer/main.go                                   *)
(*   "part_000" : src/unnamed/part_000 (generator, lines 1-606, and the    *)
(*                runtime library package enumer, lines 647-758)            *)
(*                                                                         *)
(* A text is a sequence of one-character strings, so that the case and     *)
(* symbol handling of the code is computed, not assumed.                   *)
(***************************************************************************)
EXTENDS Integers, Sequences, FiniteSets, TLC

VARIABLES
    ver,        \* which generator / companion is running
    loaded,     \* the EnumData as yaml.Unmarshal left it (never changes)
    enum,       \* the EnumData processEnum works on (passed by pointer)
    pc,         \* "loaded", "resolved", "failed", "ready", "returned"
    err,        \* the error processEnum returned
    typeConv,   \* indices of the values typeConverter was applied to
    companion,  \* the generated companion: Values and parseMap
    call,       \* the last call made on the companion, with its result
    target,     \* the enum variable *e the decode adapters assign to
    decode,     \* the last decode adapter call, with its result
    threads,    \* the frame of the companion call each thread is in
    fs          \* the file at enum.OutputPath

vars ==
    <<ver, loaded, enum, pc, err, typeConv, companion, call, target, decode,
      threads, fs>>

\* the state of the decoding caller
codec == <<target, decode>>

-----------------------------------------------------------------------------
(* Bounds                                                                  *)

\* the largest number of values in a specification
MaxValues == 2

\* the largest number of candidates handed to ParseFrom / IsFrom
MaxItems == 2

-----------------------------------------------------------------------------
(* Texts                                                                   *)

Txt(s) ==
    CASE s = ""    -> <<>>
      [] s = "a"   -> <<"a">>
      [] s = "A"   -> <<"A">>
      [] s = "b"   -> <<"b">>
      [] s = "B"   -> <<"B">>
      [] s = "c"   -> <<"c">>
      [] s = "d"   -> <<"d">>
      [] s = "D"   -> <<"D">>
      [] s = "z"   -> <<"z">>
      [] s = "-"   -> <<"-">>
      [] s = "a-b" -> <<"a", "-", "b">>
      [] s = "a b" -> <<"a", " ", "b">>
      [] s = "ab"  -> <<"a", "b">>
      [] s = "AB"  -> <<"A", "B">>
      [] s = "Ab"  -> <<"A", "b">>

LowerLetters == {"a", "b", "c", "d", "z"}
UpperLetters == {"A", "B", "C", "D", "Z"}

\* unicode.ToLower / unicode.ToUpper on one character
LowerCh(c) ==
    CASE c = "A" -> "a" [] c = "B" -> "b" [] c = "C" -> "c"
      [] c = "D" -> "d" [] c = "Z" -> "z" [] OTHER -> c

UpperCh(c) ==
    CASE c = "a" -> "A" [] c = "b" -> "B" [] c = "c" -> "C"
      [] c = "d" -> "D" [] c = "z" -> "Z" [] OTHER -> c

\* strings.ToLower, strings.ToUpper
ToLower(s) == [k \in DOMAIN s |-> LowerCh(s[k])]
ToUpper(s) == [k \in DOMAIN s |-> UpperCh(s[k])]

IsLetterCh(c) == c \in LowerLetters \cup UpperLetters
IsSpaceCh(c) == c = " "
IsNotSpaceCh(c) == ~IsSpaceCh(c)
IsNotSymbolCh(c) == IsLetterCh(c) \/ IsSpaceCh(c)

\* stringer.IsEmpty, stringer.IsDefined
IsEmpty(s) == s = <<>>
IsDefined(s) == ~IsEmpty(s)

\* stringer.RemoveSymbols: drops every symbol character
RemoveSymbols(s) == SelectSeq(s, IsNotSymbolCh)

\* stringer.RemoveSpace: drops every whitespace character
RemoveSpace(s) == SelectSeq(s, IsNotSpaceCh)

\* stringer.RemoveNonLanguageCharacters(s, "_"): keeps letters (and "_")
RemoveNonLanguageCharacters(s) == SelectSeq(s, IsLetterCh)

\* stringer.ReplaceNonLanguageCharacters(s, " ", "_"): every character that
\* is no letter (and not "_") becomes a space
ReplaceNonLanguageCharacters(s) ==
    [k \in DOMAIN s |-> IF IsLetterCh(s[k]) THEN s[k] ELSE " "]

RECURSIVE PhraseWords(_, _)
PhraseWords(s, atStart) ==
    IF s = <<>> THEN <<>>
    ELSE IF IsSpaceCh(Head(s)) THEN PhraseWords(Tail(s), TRUE)
    ELSE <<IF atStart THEN UpperCh(Head(s)) ELSE Head(s)>>
            \o PhraseWords(Tail(s), FALSE)

\* caser.PhraseToPascal: the words of the phrase, each capitalised, joined
PhraseToPascal(s) == PhraseWords(s, TRUE)

RECURSIVE KebabWords(_, _)
KebabWords(s, atStart) ==
    IF s = <<>> THEN <<>>
    ELSE (IF Head(s) \in UpperLetters /\ ~atStart THEN <<"-">> ELSE <<>>)
            \o <<LowerCh(Head(s))>> \o KebabWords(Tail(s), FALSE)

\* caser.PascalToKebabLower: a "-" before every inner capital, lower-cased
PascalToKebabLower(s) == KebabWords(s, TRUE)

\* the strategy names caser.Converter knows (two of its combinations)
KnownStrategies == {"phrase-to-pascal", "pascal-to-kebab-lower"}

\* caser.Converter[string](name): the error result for an unknown name
ConverterFails(strategy) == strategy \notin KnownStrategies

\* caser.Converter[string](name): the function it returns, applied to s
Converter(strategy, s) ==
    IF strategy = "phrase-to-pascal" THEN PhraseToPascal(s)
    ELSE PascalToKebabLower(s)

-----------------------------------------------------------------------------
(* Paths and the names derived from them                                   *)

\* the last position of the character c in s, 0 when there is none
LastIndexOf(s, c) ==
    LET hits == { k \in DOMAIN s : s[k] = c }
    IN  IF hits = {} THEN 0 ELSE CHOOSE k \in hits : \A j \in hits : j <= k

\* pather.Paths.Base (filepath.Base) of a path without trailing separator
Base(p) ==
    IF p = <<>> THEN <<".">>
    ELSE SubSeq(p, LastIndexOf(p, "/") + 1, Len(p))

\* pather.Paths.Dir (filepath.Dir) of a clean relative path
Dir(p) ==
    IF LastIndexOf(p, "/") = 0 THEN <<".">>
    ELSE SubSeq(p, 1, LastIndexOf(p, "/") - 1)

\* extentioner.Strip: the name without its last extension
Strip(p) ==
    IF LastIndexOf(p, ".") = 0 THEN p
    ELSE SubSeq(p, 1, LastIndexOf(p, ".") - 1)

YamlExt == <<".", "y", "a", "m", "l">>
GoExt == <<".", "g", "o">>

HasSuffix(p, x) ==
    Len(p) >= Len(x) /\ SubSeq(p, Len(p) - Len(x) + 1, Len(p)) = x

\* extentioner.Swap(p, ".yaml", ".go")
Swap(p) ==
    IF HasSuffix(p, YamlExt)
    THEN SubSeq(p, 1, Len(p) - Len(YamlExt)) \o GoExt
    ELSE p

\* stringer.ReplaceInList(s, []string{"-", " "}, "_")
ReplaceInList(s) ==
    [k \in DOMAIN s |-> IF s[k] \in {"-", " "} THEN "_" ELSE s[k]]

RECURSIVE KebabToPascalWords(_, _)
KebabToPascalWords(s, atStart) ==
    IF s = <<>> THEN <<>>
    ELSE IF Head(s) = "-" THEN KebabToPascalWords(Tail(s), TRUE)
    ELSE <<IF atStart THEN UpperCh(Head(s)) ELSE Head(s)>>
            \o KebabToPascalWords(Tail(s), FALSE)

\* caser.KebabToPascal: the words between the "-", each capitalised, joined
KebabToPascal(s) == KebabToPascalWords(s, TRUE)

\* pluralize.NewClient().Plural, on the regular nouns of the model
Plural(s) == s \o <<"s">>

\* the package name of an output path: its directory's name
PackageOf(path) == ReplaceInList(Base(Dir(path)))

\* the type name of an output path: its file's name without two extensions
TypeOf(path) == KebabToPascal(Strip(Strip(Base(path))))

-----------------------------------------------------------------------------
(* processEnum                                                             *)

NoErr == [kind |-> "none", index |-> -1]
ConverterErr == [kind |-> "UnknownConverter", index |-> -1]

\* part_000: typeConverter is serialize.type, or caser.PhraseToPascal
typeConverter(e, s) ==
    IF e.SerializeType # "" THEN Converter(e.SerializeType, s)
    ELSE PhraseToPascal(s)

\* part_000: valueConverter is serialize.value, or passthrough
valueConverter(e, s) ==
    IF ~(e.SerializeValue = "") THEN Converter(e.SerializeValue, s)
    ELSE s

\* ResolveValueV1 with the derived name left as converted (not stripped)
ResolveValueV1_NameNotStripped(e, value) ==
    IF IsEmpty(value.Name) /\ ~IsEmpty(value.Serialized)
    THEN [value EXCEPT !.Name = valueConverter(e, value.Serialized)]
    ELSE IF ~IsEmpty(value.Name) /\ IsEmpty(value.Serialized)
    THEN [value EXCEPT !.Serialized = typeConverter(e, value.Name)]
    ELSE value

\* ResolveValueV1 with the derived serialized form stripped like a name
ResolveValueV1_SerializedStripped(e, value) ==
    IF IsEmpty(value.Name) /\ ~IsEmpty(value.Serialized)
    THEN [value EXCEPT
            !.Name = RemoveSpace(RemoveSymbols(valueConverter(e, value.Serialized)))]
    ELSE IF ~IsEmpty(value.Name) /\ IsEmpty(value.Serialized)
    THEN [value EXCEPT
            !.Serialized = RemoveSpace(RemoveSymbols(typeConverter(e, value.Name)))]
    ELSE value

\* part_000: the body of the loop for one value that is not rejected
ResolveValueV1(e, value) ==
    IF IsEmpty(value.Name) /\ ~IsEmpty(value.Serialized)
    THEN [value EXCEPT
            !.Name = RemoveSpace(RemoveSymbols(valueConverter(e, value.Serialized)))]
    ELSE IF ~IsEmpty(value.Name) /\ IsEmpty(value.Serialized)
    THEN [value EXCEPT !.Serialized = typeConverter(e, value.Name)]
    ELSE value

\* part_000: does the loop body call typeConverter for this value
CallsTypeConverterV1(value) ==
    ~(IsEmpty(value.Name) /\ ~IsEmpty(value.Serialized))
    /\ ~IsEmpty(value.Name) /\ IsEmpty(value.Serialized)

\* ResolveValueV2 normalising a supplied serialized form like the name
ResolveValueV2_SerializedNormalised(value) ==
    IF IsEmpty(value.Name) /\ IsDefined(value.Serialized)
    THEN [value EXCEPT
            !.Name = PhraseToPascal(ReplaceNonLanguageCharacters(value.Serialized))]
    ELSE IF IsDefined(value.Name) /\ IsEmpty(value.Serialized)
    THEN [value EXCEPT
            !.Serialized = PascalToKebabLower(RemoveNonLanguageCharacters(value.Name)),
            !.Name = RemoveSpace(RemoveNonLanguageCharacters(value.Name))]
    ELSE IF IsDefined(value.Name) /\ IsDefined(value.Serialized)
    THEN [value EXCEPT
            !.Serialized = RemoveSpace(RemoveNonLanguageCharacters(value.Serialized)),
            !.Name = RemoveSpace(RemoveNonLanguageCharacters(value.Name))]
    ELSE value

\* main.go: the body of the loop for one value that is not rejected
ResolveValueV2(value) ==
    IF IsEmpty(value.Name) /\ IsDefined(value.Serialized)
    THEN [value EXCEPT
            !.Name = PhraseToPascal(ReplaceNonLanguageCharacters(value.Serialized))]
    ELSE IF IsDefined(value.Name) /\ IsEmpty(value.Serialized)
    THEN [value EXCEPT
            !.Serialized = PascalToKebabLower(RemoveNonLanguageCharacters(value.Name)),
            !.Name = RemoveSpace(RemoveNonLanguageCharacters(value.Name))]
    ELSE IF IsDefined(value.Name) /\ IsDefined(value.Serialized)
    THEN [value EXCEPT
            !.Name = RemoveSpace(RemoveNonLanguageCharacters(value.Name))]
    ELSE value

\* InvalidValueErr naming the position counted from one
InvalidValueErr_OneBased(i) == [kind |-> "InvalidValue", index |-> i + 1]

\* the error of the loop for values[i]: "invalid values[%v] ...", i
InvalidValueErr(i) == [kind |-> "InvalidValue", index |-> i]

\* the loop over enum.Values, from index i (1-based here, i-1 in the code):
\* returns the values as the loop leaves them, the error, and the indices
\* (0-based) typeConverter was applied to
RECURSIVE ValuesLoop(_, _, _, _, _)
ValuesLoop(v, e, values, i, tc) ==
    IF i > Len(values)
    THEN [Values |-> values, err |-> NoErr, typeConv |-> tc]
    ELSE IF IsEmpty(values[i].Name) /\ IsEmpty(values[i].Serialized)
    THEN [Values |-> values, err |-> InvalidValueErr(i - 1), typeConv |-> tc]
    ELSE ValuesLoop(v, e,
            [values EXCEPT ![i] = IF v = "part_000"
                                  THEN ResolveValueV1(e, values[i])
                                  ELSE ResolveValueV2(values[i])],
            i + 1,
            IF v = "part_000" /\ CallsTypeConverterV1(values[i])
            THEN tc \cup {i - 1} ELSE tc)

\* part_000: the lookup of the serialize.type converter fails
TypeConverterLookupFails(v, e) ==
    v = "part_000" /\ e.SerializeType # "" /\ ConverterFails(e.SerializeType)

\* part_000: the lookup of the serialize.value converter fails
ValueConverterLookupFails(v, e) ==
    v = "part_000" /\ ~(e.SerializeValue = "") /\ ConverterFails(e.SerializeValue)

\* part_000: the converter lookups before the loop
ConverterLookupFails(v, e) ==
    TypeConverterLookupFails(v, e) \/ ValueConverterLookupFails(v, e)

\* if enum.OutputPath == "" { ... }
DefaultOutputPath(e) ==
    IF e.OutputPath = <<>> THEN [e EXCEPT !.OutputPath = Swap(e.InputPath)] ELSE e

\* if enum.Package == "" { ... }
DefaultPackage(e) ==
    IF e.Package = <<>> THEN [e EXCEPT !.Package = PackageOf(e.OutputPath)] ELSE e

\* if enum.Type == "" { ... }
DefaultType(e) ==
    IF e.Type = <<>> THEN [e EXCEPT !.Type = TypeOf(e.OutputPath)] ELSE e

\* DefaultStruct overriding a supplied struct name
DefaultStruct_Always(e) == [e EXCEPT !.Struct = Plural(e.Type)]

\* if enum.Struct == "" { ... }
DefaultStruct(e) ==
    IF e.Struct = <<>> THEN [e EXCEPT !.Struct = Plural(e.Type)] ELSE e

\* processEnum on the loaded EnumData e: what it leaves in *enum, and what
\* it returns
processEnum(v, e) ==
    LET e2 == DefaultPackage(DefaultOutputPath(e))
        e4 == DefaultStruct(DefaultType(e2))
    IN  IF TypeConverterLookupFails(v, e)
        THEN [enum |-> e2, err |-> ConverterErr, typeConv |-> {}]
        ELSE IF ValueConverterLookupFails(v, e)
        THEN [enum |-> e4, err |-> ConverterErr, typeConv |-> {}]
        ELSE LET r == ValuesLoop(v, e, e.Values, 1, {})
             IN  [enum |-> [e4 EXCEPT !.Values = r.Values],
                  err |-> r.err, typeConv |-> r.typeConv]

-----------------------------------------------------------------------------
(* The specifications processEnum is run on                                *)

Versions == {"main_go", "part_000"}

NamePool == {Txt(""), Txt("A"), Txt("a-b"), Txt("a b")}
SerializedPool == {Txt(""), Txt("a"), Txt("A"), Txt("a-b"), Txt("a b")}
ParseFromPool == {<<>>, <<Txt("d")>>}

ValuePool ==
    [Name : NamePool, Serialized : SerializedPool, ParseFrom : ParseFromPool]

SerializePool ==
    { [t |-> "", v |-> ""],
      [t |-> "pascal-to-kebab-lower", v |-> "phrase-to-pascal"],
      [t |-> "no-such-strategy", v |-> ""],
      [t |-> "", v |-> "no-such-strategy"] }

ValueLists(pool, n) == UNION { [1..k -> pool] : k \in 0..n }

\* the paths of the model: args.InputPath and a configured output path
InputPathA ==
    <<"d", "-", "c", "/", "b", "a", "d", "-", "c", "a", "b",
      ".", "e", "n", "u", "m", ".", "y", "a", "m", "l">>
InputPathB == <<"c", "a", "b", ".", "y", "a", "m", "l">>
OutputPathZ == <<"z", "/", "d", "a", "b", ".", "g", "o">>

\* the enumeration-level fields left to processEnum, nothing configured
NoDefaults ==
    [InputPath |-> InputPathB, OutputPath |-> <<>>, Package |-> <<>>,
     Type |-> <<>>, Struct |-> <<>>, Overwrite |-> FALSE]

\* the EnumData after yaml.Unmarshal; InputPath holds args.InputPath, which
\* processEnum stores in it before its first use
EnumDataWith(values, s, d) ==
    [Values |-> values, SerializeType |-> s.t, SerializeValue |-> s.v,
     InputPath |-> d.InputPath, OutputPath |-> d.OutputPath,
     Package |-> d.Package, Type |-> d.Type, Struct |-> d.Struct,
     Overwrite |-> d.Overwrite]

EnumDataOf(values, s) == EnumDataWith(values, s, NoDefaults)

NoCompanion == [Values |-> <<>>, parseMap |-> <<>>]
NoCall == [op |-> "none"]
NoDecode == [op |-> "none"]

\* the threads of the program using the companion, none of them in a call
Threads == {"t1", "t2"}
NoFrame == [phase |-> "idle"]
NoThreads == [t \in Threads |-> NoFrame]

\* no file at enum.OutputPath
NoBytes == [kind |-> "none", Type |-> <<>>, Values |-> <<>>]
NoFile == [exists |-> FALSE, bytes |-> NoBytes]

InitResolve ==
    /\ ver \in Versions
    /\ \E values \in ValueLists(ValuePool, MaxValues), s \in SerializePool :
            loaded = EnumDataOf(values, s)
    /\ enum = loaded
    /\ pc = "loaded"
    /\ err = NoErr
    /\ typeConv = {}
    /\ companion = NoCompanion
    /\ call = NoCall
    /\ target = <<>>
    /\ decode = NoDecode
    /\ threads = NoThreads
    /\ fs = NoFile

\* main(): processEnum(args, &enum)
ProcessEnum ==
    /\ pc = "loaded"
    /\ LET r == processEnum(ver, enum)
       IN  /\ enum' = r.enum
           /\ err' = r.err
           /\ typeConv' = r.typeConv
           /\ pc' = IF r.err = NoErr THEN "resolved" ELSE "failed"
    /\ UNCHANGED <<ver, loaded, companion, call, codec, threads, fs>>

NextResolve == ProcessEnum

SpecResolve == InitResolve /\ [][NextResolve]_vars

\* the specifications processEnum derives the enumeration-level names for
DefaultsPool ==
    [InputPath : {InputPathA, InputPathB},
     OutputPath : {<<>>, OutputPathZ},
     Package : {<<>>, <<"z", "-", "d">>},
     Type : {<<>>, <<"D", "a", "b">>},
     Struct : {<<>>, <<"Z", "a", "b", "s">>},
     Overwrite : {FALSE}]

DefaultsValuePool ==
    [Name : {<<>>}, Serialized : {Txt(""), Txt("a")}, ParseFrom : {<<>>}]

InitDefaults ==
    /\ ver \in Versions
    /\ \E values \in ValueLists(DefaultsValuePool, MaxValues),
          s \in SerializePool, d \in DefaultsPool :
            loaded = EnumDataWith(values, s, d)
    /\ enum = loaded
    /\ pc = "loaded"
    /\ err = NoErr
    /\ typeConv = {}
    /\ companion = NoCompanion
    /\ call = NoCall
    /\ target = <<>>
    /\ decode = NoDecode
    /\ threads = NoThreads
    /\ fs = NoFile

SpecDefaults == InitDefaults /\ [][NextResolve]_vars

-----------------------------------------------------------------------------
(* processTemplate: the companion the generated source declares            *)

Serializeds(values) == [k \in DOMAIN values |-> values[k].Serialized]

\* a Go identifier (over the characters of the model): letters only
IsIdentifier(s) == s # <<>> /\ \A k \in DOMAIN s : IsLetterCh(s[k])

\* the generated struct has one field per value, named value.Name: the
\* source compiles only if the names are identifiers, pairwise distinct
Compiles(values) ==
    /\ \A k \in DOMAIN values : IsIdentifier(values[k].Name)
    /\ \A j, k \in DOMAIN values : values[j].Name = values[k].Name => j = k

\* main.go, generated init: the strings registered for one value
Matchers(value) == <<value.Serialized, value.Name>> \o value.ParseFrom

\* main.go, generated init: the parseMap literals the source can evaluate
\* to. The literal has one entry per value, keyed by the field holding its
\* serialized form; when two values share a serialized form the entry that
\* the rendered literal lists last stays, and pick says which one that is.
ParseMaps(values) ==
    LET keys == { values[k].Serialized : k \in DOMAIN values }
        picks == { pick \in [keys -> DOMAIN values] :
                     \A key \in keys : values[pick[key]].Serialized = key }
    IN  { [key \in keys |-> Matchers(values[pick[key]])] : pick \in picks }

-----------------------------------------------------------------------------
(* The companion of main.go                                                *)

NoRunErr == [kind |-> "none", v |-> <<>>, xs |-> <<>>]

RECURSIVE errfItems(_, _, _)
errfItems(t, items, k) ==
    IF k > Len(items) THEN <<>>
    ELSE (IF items[k] \in DOMAIN t.parseMap THEN t.parseMap[items[k]] ELSE <<>>)
            \o errfItems(t, items, k + 1)

\* main.go, generated errf(v, items...)
errf(t, v, items) == [kind |-> "invalid", v |-> v, xs |-> errfItems(t, items, 1)]

\* main.go, generated ParseFrom: the range loop from position k on
RECURSIVE ParseFromLoopV2(_, _, _, _)
ParseFromLoopV2(t, v, items, k) ==
    IF k > Len(items) THEN [found |-> <<>>, err |-> NoRunErr]
    ELSE IF items[k] \notin DOMAIN t.parseMap
    THEN ParseFromLoopV2(t, v, items, k + 1)
    ELSE IF \E m \in DOMAIN t.parseMap[items[k]] : v = t.parseMap[items[k]][m]
    THEN [found |-> items[k], err |-> NoRunErr]
    ELSE [found |-> <<>>, err |-> errf(t, v, items)]

\* main.go, generated ParseFrom(v, items...)
ParseFromV2(t, v, items) == ParseFromLoopV2(t, v, items, 1)

\* main.go, generated Parse(v)
ParseV2(t, v) == ParseFromV2(t, v, t.Values)

\* main.go, generated IsFrom(v, items...)
IsFromV2(t, v, items) == ParseFromV2(t, v, items).err = NoRunErr

\* main.go, generated Is(v)
IsV2(t, v) == IsFromV2(t, v, t.Values)

-----------------------------------------------------------------------------
(* The companion of part_000 and the library package enumer                *)

\* enumer.IsEq(a)(b)
IsEq(a, b) ==
    LET lower == ToLower(a)
        upper == ToLower(a)
    IN  a = b \/ lower = ToLower(b) \/ upper = ToUpper(b)

\* part_000, generated newErr(a, values...)
newErr(a, values) == [kind |-> "invalid", v |-> a, xs |-> values]

\* part_000, generated ParseFrom: the range loop from position k on
RECURSIVE ParseFromLoopV1(_, _, _)
ParseFromLoopV1(v, values, k) ==
    IF k > Len(values) THEN [found |-> <<>>, err |-> newErr(v, values)]
    ELSE IF IsEq(v, values[k]) THEN [found |-> values[k], err |-> NoRunErr]
    ELSE ParseFromLoopV1(v, values, k + 1)

\* part_000, generated ParseFrom(v, values...)
ParseFromV1(v, values) == ParseFromLoopV1(v, values, 1)

\* part_000, generated Parse(v)
ParseV1(t, v) == ParseFromV1(v, t.Values)

\* part_000, generated IsFrom: the range loop from position k on
RECURSIVE IsFromLoopV1(_, _, _)
IsFromLoopV1(v, values, k) ==
    IF k > Len(values) THEN FALSE
    ELSE IF IsEq(v, values[k]) THEN TRUE
    ELSE IsFromLoopV1(v, values, k + 1)

\* IsFromV1 comparing the text and the candidates exactly
IsFromV1_Exact(v, values) == \E k \in DOMAIN values : v = values[k]

\* part_000, generated IsFrom(v, values...)
IsFromV1(v, values) == IsFromLoopV1(v, values, 1)

\* part_000, generated Is(v)
IsV1(t, v) == IsFromV1(v, t.Values)

-----------------------------------------------------------------------------
(* Calls on the companion, by version                                      *)

ParseFrom(vr, t, v, items) ==
    IF vr = "main_go" THEN ParseFromV2(t, v, items) ELSE ParseFromV1(v, items)

Parse(vr, t, v) == IF vr = "main_go" THEN ParseV2(t, v) ELSE ParseV1(t, v)

IsFrom(vr, t, v, items) ==
    IF vr = "main_go" THEN IsFromV2(t, v, items) ELSE IsFromV1(v, items)

Is(vr, t, v) == IF vr = "main_go" THEN IsV2(t, v) ELSE IsV1(t, v)

-----------------------------------------------------------------------------
(* The generator run followed by the use of the generated companion        *)

MatchNamePool == {Txt(""), Txt("c")}
MatchSerializedPool == {Txt(""), Txt("a"), Txt("A"), Txt("b")}
MatchValuePool ==
    [Name : MatchNamePool, Serialized : MatchSerializedPool,
     ParseFrom : ParseFromPool]

\* the texts handed to the companion
TextPool == {Txt("a"), Txt("A"), Txt("b"), Txt("c"), Txt("d"), Txt("D"), Txt("z")}

\* the candidate lists handed to ParseFrom and IsFrom: declared values and
\* one value that is not declared, without repetition
ItemLists(t) ==
    LET pool == { t.Values[k] : k \in DOMAIN t.Values } \cup {Txt("z")}
    IN  { items \in ValueLists(pool, MaxItems) :
            \A j, k \in DOMAIN items : items[j] = items[k] => j = k }

Init ==
    /\ ver \in Versions
    /\ \E values \in ValueLists(MatchValuePool, MaxValues) :
            loaded = EnumDataOf(values, [t |-> "", v |-> ""])
    /\ enum = loaded
    /\ pc = "loaded"
    /\ err = NoErr
    /\ typeConv = {}
    /\ companion = NoCompanion
    /\ call = NoCall
    /\ target = <<>>
    /\ decode = NoDecode
    /\ threads = NoThreads
    /\ fs = NoFile

\* processTemplate, processWrite, and the generated package's init()
CompanionInit ==
    /\ pc = "resolved"
    /\ Compiles(enum.Values)
    /\ \E pm \in ParseMaps(enum.Values) :
            companion' = [Values |-> Serializeds(enum.Values),
                          parseMap |-> IF ver = "main_go" THEN pm ELSE <<>>]
    /\ pc' = "ready"
    /\ UNCHANGED <<ver, loaded, enum, err, typeConv, call, codec, threads, fs>>

Called(op, v, items, r, ok) ==
    [op |-> op, v |-> v, items |-> items, found |-> r.found, err |-> r.err,
     ok |-> ok]

NoResult == [found |-> <<>>, err |-> NoRunErr]

CallParseFrom ==
    /\ pc = "ready"
    /\ \E v \in TextPool, items \in ItemLists(companion) :
            call' = Called("ParseFrom", v, items,
                           ParseFrom(ver, companion, v, items), FALSE)
    /\ pc' = "returned"
    /\ UNCHANGED <<ver, loaded, enum, err, typeConv, companion, codec, threads, fs>>

CallParse ==
    /\ pc = "ready"
    /\ \E v \in TextPool :
            call' = Called("Parse", v, companion.Values,
                           Parse(ver, companion, v), FALSE)
    /\ pc' = "returned"
    /\ UNCHANGED <<ver, loaded, enum, err, typeConv, companion, codec, threads, fs>>

CallIsFrom ==
    /\ pc = "ready"
    /\ \E v \in TextPool, items \in ItemLists(companion) :
            call' = Called("IsFrom", v, items, NoResult,
                           IsFrom(ver, companion, v, items))
    /\ pc' = "returned"
    /\ UNCHANGED <<ver, loaded, enum, err, typeConv, companion, codec, threads, fs>>

CallIs ==
    /\ pc = "ready"
    /\ \E v \in TextPool :
            call' = Called("Is", v, companion.Values, NoResult,
                           Is(ver, companion, v))
    /\ pc' = "returned"
    /\ UNCHANGED <<ver, loaded, enum, err, typeConv, companion, codec, threads, fs>>

\* the caller takes the result and is free to call again
Return ==
    /\ pc = "returned"
    /\ pc' = "ready"
    /\ call' = NoCall
    /\ UNCHANGED <<ver, loaded, enum, err, typeConv, companion, codec, threads, fs>>

Next ==
    \/ ProcessEnum
    \/ CompanionInit
    \/ CallParseFrom
    \/ CallParse
    \/ CallIsFrom
    \/ CallIs
    \/ Return

Spec == Init /\ [][Next]_vars


-----------------------------------------------------------------------------
(* The decode adapters                                                     *)

\* the error of json.Unmarshal / of the YAML unmarshal callback
ExtractErr == [kind |-> "decode", v |-> <<>>, xs |-> <<>>]

\* part_000 Scan: fmt.Errorf("cannot be null")
NullErr == [kind |-> "null", v |-> <<>>, xs |-> <<>>]

\* part_000 Scan: fmt.Errorf("not a string")
NotStringErr == [kind |-> "not-a-string", v |-> <<>>, xs |-> <<>>]

\* the texts that reach the adapters
DecodeTexts == {Txt("a"), Txt("A"), Txt("d"), Txt("z")}

\* a JSON or YAML document: one that holds no string, or a string
DocInputs ==
    {[kind |-> "bad", s |-> <<>>]} \cup { [kind |-> "string", s |-> x] : x \in DecodeTexts }

\* a driver value: nil, a string, a []byte, or a value of another type
\* (s is then its fmt "%v" rendering)
ScanInputs ==
    {[kind |-> "nil", s |-> <<>>]}
        \cup [kind : {"string", "bytes", "other"}, s : DecodeTexts]

\* driver.String.ConvertValue: a string or []byte as it is, anything else
\* formatted with "%v"; it returns no error
ConvertValue(value) ==
    IF value.kind \in {"string", "bytes"} THEN value
    ELSE [kind |-> "string", s |-> value.s]

\* fmt "%v" of the value handed to errf by main.go's Scan
Render(value) ==
    IF value.kind = "nil" THEN <<"<nil>">>
    ELSE IF value.kind = "bytes" THEN <<"[]byte">> \o value.s
    ELSE value.s

\* ParseInto assigning *e before it looks at the parser's error
ParseInto_AssignFirst(vr, t, s, e) ==
    LET p == Parse(vr, t, s)
    IN  [e |-> p.found, err |-> p.err, parsed |-> TRUE]

\* the adapter's tail: p, err := parser(s); if err != nil return err; *e = p
ParseInto(vr, t, s, e) ==
    LET p == Parse(vr, t, s)
    IN  IF p.err # NoRunErr
        THEN [e |-> e, err |-> p.err, parsed |-> TRUE]
        ELSE [e |-> p.found, err |-> NoRunErr, parsed |-> TRUE]

\* enumer.UnmarshalJSON (main.go: the generated UnmarshalJSON)
UnmarshalJSON(vr, t, data, e) ==
    IF data.kind = "bad" THEN [e |-> e, err |-> ExtractErr, parsed |-> FALSE]
    ELSE ParseInto(vr, t, data.s, e)

\* enumer.UnmarshalYAML (main.go: the generated UnmarshalYAML)
UnmarshalYAML(vr, t, data, e) ==
    IF data.kind = "bad" THEN [e |-> e, err |-> ExtractErr, parsed |-> FALSE]
    ELSE ParseInto(vr, t, data.s, e)

\* Scan that parses whatever text the driver value holds
ScanV1_NoTypeCheck(t, value, e) ==
    IF value.kind = "nil" THEN [e |-> e, err |-> NullErr, parsed |-> FALSE]
    ELSE ParseInto("part_000", t, value.s, e)

\* enumer.Scan of part_000
ScanV1(t, value, e) ==
    IF value.kind = "nil" THEN [e |-> e, err |-> NullErr, parsed |-> FALSE]
    ELSE LET dv == ConvertValue(value)
         IN  IF dv.kind # "string"
             THEN [e |-> e, err |-> NotStringErr, parsed |-> FALSE]
             ELSE ParseInto("part_000", t, dv.s, e)

\* the generated Scan of main.go
ScanV2(t, value, e) ==
    IF value.kind = "nil"
    THEN [e |-> e, err |-> errf(t, Render(value), <<>>), parsed |-> FALSE]
    ELSE LET dv == ConvertValue(value)
         IN  IF dv.kind # "string"
             THEN [e |-> e, err |-> errf(t, Render(value), <<>>), parsed |-> FALSE]
             ELSE ParseInto("main_go", t, dv.s, e)

Scan(vr, t, value, e) ==
    IF vr = "main_go" THEN ScanV2(t, value, e) ELSE ScanV1(t, value, e)

Decoded(op, input, r) ==
    [op |-> op, input |-> input, before |-> target, err |-> r.err,
     parsed |-> r.parsed]

CallUnmarshalJSON ==
    /\ pc = "ready"
    /\ \E data \in DocInputs :
          LET r == UnmarshalJSON(ver, companion, data, target)
          IN  /\ target' = r.e
              /\ decode' = Decoded("UnmarshalJSON", data, r)
    /\ pc' = "decoded"
    /\ UNCHANGED <<ver, loaded, enum, err, typeConv, companion, call,
                   threads, fs>>

CallUnmarshalYAML ==
    /\ pc = "ready"
    /\ \E data \in DocInputs :
          LET r == UnmarshalYAML(ver, companion, data, target)
          IN  /\ target' = r.e
              /\ decode' = Decoded("UnmarshalYAML", data, r)
    /\ pc' = "decoded"
    /\ UNCHANGED <<ver, loaded, enum, err, typeConv, companion, call,
                   threads, fs>>

CallScan ==
    /\ pc = "ready"
    /\ \E value \in ScanInputs :
          LET r == Scan(ver, companion, value, target)
          IN  /\ target' = r.e
              /\ decode' = Decoded("Scan", value, r)
    /\ pc' = "decoded"
    /\ UNCHANGED <<ver, loaded, enum, err, typeConv, companion, call,
                   threads, fs>>

\* the caller takes the error; *e stays as the adapter left it
ReturnDecode ==
    /\ pc = "decoded"
    /\ pc' = "ready"
    /\ decode' = NoDecode
    /\ UNCHANGED <<ver, loaded, enum, err, typeConv, companion, call, target,
                   threads, fs>>

NextCodec ==
    \/ ProcessEnum
    \/ CompanionInit
    \/ CallUnmarshalJSON
    \/ CallUnmarshalYAML
    \/ CallScan
    \/ ReturnDecode

SpecCodec == Init /\ [][NextCodec]_vars

-----------------------------------------------------------------------------
(* Threads calling the generated companion of main.go at the same time     *)

\* Parse and Is: t.Values(), the declared values in a fresh slice
Values(t) == t.Values

\* the frame of a call that has entered ParseFrom(v, items...)
Entered(op, v, items) ==
    [phase |-> "iter", op |-> op, v |-> v, items |-> items, i |-> 1,
     found |-> <<>>, err |-> NoRunErr]

\* parseFromIter keeping only the matcher that matched for the candidate
parseFromIter_Memoising(c, fr) ==
    IF fr.i > Len(fr.items)
    THEN [companion |-> c, frame |-> [fr EXCEPT !.phase = "done"]]
    ELSE LET item == fr.items[fr.i]
         IN  IF item \notin DOMAIN c.parseMap
             THEN [companion |-> c, frame |-> [fr EXCEPT !.i = @ + 1]]
             ELSE IF \E m \in DOMAIN c.parseMap[item] : fr.v = c.parseMap[item][m]
             THEN [companion |-> [c EXCEPT !.parseMap[item] = <<fr.v>>],
                   frame |-> [fr EXCEPT !.found = item, !.phase = "done"]]
             ELSE [companion |-> c, frame |-> [fr EXCEPT !.phase = "errf"]]

\* generated ParseFrom: one pass through the body of the range loop (or the
\* return after it), as the shared companion and the frame it leaves
parseFromIter(c, fr) ==
    IF fr.i > Len(fr.items)
    THEN [companion |-> c, frame |-> [fr EXCEPT !.phase = "done"]]
    ELSE LET item == fr.items[fr.i]
         IN  IF item \notin DOMAIN c.parseMap
             THEN [companion |-> c, frame |-> [fr EXCEPT !.i = @ + 1]]
             ELSE IF \E m \in DOMAIN c.parseMap[item] : fr.v = c.parseMap[item][m]
             THEN [companion |-> c,
                   frame |-> [fr EXCEPT !.found = item, !.phase = "done"]]
             ELSE [companion |-> c, frame |-> [fr EXCEPT !.phase = "errf"]]

\* generated errf called from ParseFrom: return found, t.errf(v, items...)
parseFromErrf(c, fr) ==
    [companion |-> c,
     frame |-> [fr EXCEPT !.err = errf(c, fr.v, fr.items), !.phase = "done"]]

ConcurrentValuePool ==
    [Name : {<<>>}, Serialized : {Txt("a"), Txt("b")}, ParseFrom : ParseFromPool]

ConcurrentTexts == {Txt("a"), Txt("d"), Txt("z")}

\* the candidate lists the threads pass: none, an undeclared one, the
\* declared ones, and the declared ones after an undeclared one
ConcurrentItems(c) ==
    {<<>>, <<Txt("z")>>, Values(c), <<Txt("z")>> \o Values(c)}

InitConcurrent ==
    /\ ver = "main_go"
    /\ \E values \in ValueLists(ConcurrentValuePool, MaxValues) :
            loaded = EnumDataOf(values, [t |-> "", v |-> ""])
    /\ enum = loaded
    /\ pc = "loaded"
    /\ err = NoErr
    /\ typeConv = {}
    /\ companion = NoCompanion
    /\ call = NoCall
    /\ target = <<>>
    /\ decode = NoDecode
    /\ threads = NoThreads
    /\ fs = NoFile

\* a thread calls ParseFrom or IsFrom with its own candidates
BeginFrom(t) ==
    /\ pc = "ready" /\ ver = "main_go"
    /\ threads[t] = NoFrame
    /\ \E op \in {"ParseFrom", "IsFrom"}, v \in ConcurrentTexts,
          items \in ConcurrentItems(companion) :
            threads' = [threads EXCEPT ![t] = Entered(op, v, items)]
    /\ UNCHANGED <<ver, loaded, enum, pc, err, typeConv, companion, call, codec, fs>>

\* a thread calls Parse or Is: the candidates are t.Values()
BeginAll(t) ==
    /\ pc = "ready" /\ ver = "main_go"
    /\ threads[t] = NoFrame
    /\ \E op \in {"Parse", "Is"}, v \in ConcurrentTexts :
            threads' = [threads EXCEPT ![t] = Entered(op, v, Values(companion))]
    /\ UNCHANGED <<ver, loaded, enum, pc, err, typeConv, companion, call, codec, fs>>

\* a thread in ParseFrom goes once through the loop
Iterate(t) ==
    /\ threads[t].phase = "iter"
    /\ LET r == parseFromIter(companion, threads[t])
       IN  /\ companion' = r.companion
           /\ threads' = [threads EXCEPT ![t] = r.frame]
    /\ UNCHANGED <<ver, loaded, enum, pc, err, typeConv, call, codec, fs>>

\* a thread in ParseFrom builds the error it returns
Errf(t) ==
    /\ threads[t].phase = "errf"
    /\ LET r == parseFromErrf(companion, threads[t])
       IN  /\ companion' = r.companion
           /\ threads' = [threads EXCEPT ![t] = r.frame]
    /\ UNCHANGED <<ver, loaded, enum, pc, err, typeConv, call, codec, fs>>

\* the caller takes the result; the thread is free to call again
Finish(t) ==
    /\ threads[t].phase = "done"
    /\ threads' = [threads EXCEPT ![t] = NoFrame]
    /\ UNCHANGED <<ver, loaded, enum, pc, err, typeConv, companion, call, codec, fs>>

NextConcurrent ==
    \/ ProcessEnum
    \/ CompanionInit
    \/ \E t \in Threads : BeginFrom(t)
    \/ \E t \in Threads : BeginAll(t)
    \/ \E t \in Threads : Iterate(t)
    \/ \E t \in Threads : Errf(t)
    \/ \E t \in Threads : Finish(t)

SpecConcurrent == InitConcurrent /\ [][NextConcurrent]_vars

-----------------------------------------------------------------------------
(* processWrite                                                            *)

\* processTemplate: the bytes of the generated source, as what they render
processTemplate(e) == [kind |-> "source", Type |-> e.Type, Values |-> e.Values]

\* a file some earlier run or the user left at enum.OutputPath
OldFile == [exists |-> TRUE, bytes |-> [kind |-> "old", Type |-> <<>>, Values |-> <<>>]]

\* what os.WriteFile leaves when it fails after creating the file
PartFile == [exists |-> TRUE, bytes |-> [kind |-> "part", Type |-> <<>>, Values |-> <<>>]]

FileWith(bs) == [exists |-> TRUE, bytes |-> bs]

IoErr(step) == [kind |-> step, index |-> -1]

\* how the calls into the file system end in one run of processWrite
IoOutcomes ==
    [remove1 : {"ok", "fail"}, mkdir : {"ok", "fail"},
     remove2 : {"ok", "fail"}, write : {"ok", "fail", "part"}]

\* processWrite removing an existing file whether or not Overwrite is set
processWrite_IgnoresOverwrite(e, bs, f, io) ==
    IF f.exists /\ io.remove1 = "fail" THEN [fs |-> f, err |-> IoErr("RemoveErr")]
    ELSE IF io.mkdir = "fail" THEN [fs |-> NoFile, err |-> IoErr("MkdirAll")]
    ELSE IF io.remove2 = "fail" THEN [fs |-> NoFile, err |-> IoErr("RemoveErr")]
    ELSE IF io.write = "fail" THEN [fs |-> NoFile, err |-> IoErr("WriteFile")]
    ELSE IF io.write = "part" THEN [fs |-> PartFile, err |-> IoErr("WriteFile")]
    ELSE [fs |-> FileWith(bs), err |-> NoErr]

\* processWrite(enum, bs) on the file f: the file it leaves and the error
\* it returns
processWrite(e, bs, f, io) ==
    IF f.exists /\ ~e.Overwrite THEN [fs |-> f, err |-> NoErr]
    ELSE IF f.exists /\ io.remove1 = "fail" THEN [fs |-> f, err |-> IoErr("RemoveErr")]
    ELSE IF io.mkdir = "fail" THEN [fs |-> NoFile, err |-> IoErr("MkdirAll")]
    ELSE IF io.remove2 = "fail" THEN [fs |-> NoFile, err |-> IoErr("RemoveErr")]
    ELSE IF io.write = "fail" THEN [fs |-> NoFile, err |-> IoErr("WriteFile")]
    ELSE IF io.write = "part" THEN [fs |-> PartFile, err |-> IoErr("WriteFile")]
    ELSE [fs |-> FileWith(bs), err |-> NoErr]

InitWrite ==
    /\ ver \in Versions
    /\ \E values \in ValueLists(DefaultsValuePool, MaxValues), o \in BOOLEAN :
            loaded = EnumDataWith(values, [t |-> "", v |-> ""],
                                  [NoDefaults EXCEPT !.Overwrite = o])
    /\ enum = loaded
    /\ pc = "loaded"
    /\ err = NoErr
    /\ typeConv = {}
    /\ companion = NoCompanion
    /\ call = NoCall
    /\ target = <<>>
    /\ decode = NoDecode
    /\ threads = NoThreads
    /\ fs \in {NoFile, OldFile}

\* main(): bs, err := processTemplate(enum); processWrite(enum, bs)
ProcessWrite ==
    /\ pc = "resolved"
    /\ \E io \in IoOutcomes :
        LET r == processWrite(enum, processTemplate(enum), fs, io)
        IN  /\ fs' = r.fs
            /\ err' = r.err
            /\ pc' = IF r.err = NoErr THEN "written" ELSE "unwritten"
    /\ UNCHANGED <<ver, loaded, enum, typeConv, companion, call, codec, threads>>

NextWrite ==
    \/ ProcessEnum
    \/ ProcessWrite

SpecWrite == InitWrite /\ [][NextWrite]_vars

-----------------------------------------------------------------------------
(* Properties                                                              *)

Declared == DOMAIN enum.Values
Supplied == DOMAIN loaded.Values

\* the strings the specification registers for value k after resolution
MatchStrings(k) ==
    {enum.Values[k].Serialized, enum.Values[k].Name}
        \cup { enum.Values[k].ParseFrom[m] : m \in DOMAIN enum.Values[k].ParseFrom }

\* no string of one value equals, ignoring case, a string of another one
Unambiguous ==
    \A j, k \in Declared : j # k =>
        \A x \in MatchStrings(j), y \in MatchStrings(k) : ToLower(x) # ToLower(y)

\* C1: in the companion main.go generates, Parse of the serialized form of
\* any declared value returns that value and no error. Stated for the
\* definitions whose registered strings do not collide, where the value
\* meant is beyond doubt.
C1_ParseSerialized ==
    (pc = "returned" /\ ver = "main_go" /\ call.op = "Parse" /\ Unambiguous)
    => \A k \in Declared :
          call.v = enum.Values[k].Serialized
          => call.err = NoRunErr /\ call.found = enum.Values[k].Serialized

\* C2: matching ignores letter case: Parse of a text that differs from the
\* serialized form of a declared value only in letter case returns that
\* value. Stated for the first declared value of a definition whose
\* registered strings do not collide.
C2_ParseIgnoresCase ==
    (pc = "returned" /\ call.op = "Parse" /\ Unambiguous /\ Declared # {})
    => (ToLower(call.v) = ToLower(enum.Values[1].Serialized)
        => call.err = NoRunErr /\ call.found = enum.Values[1].Serialized)

\* C3: Parse of any parseFrom alias of a declared value returns that value
\* and no error. Stated for the definitions whose registered strings do not
\* collide.
C3_ParseAlias ==
    (pc = "returned" /\ call.op = "Parse" /\ Unambiguous)
    => \A k \in Declared : \A m \in DOMAIN enum.Values[k].ParseFrom :
          call.v = enum.Values[k].ParseFrom[m]
          => call.err = NoRunErr /\ call.found = enum.Values[k].Serialized

\* main.go: the candidate is registered and one of its strings is the text
MatchesV2(t, v, item) ==
    item \in DOMAIN t.parseMap /\ \E m \in DOMAIN t.parseMap[item] : v = t.parseMap[item][m]

\* C4: ParseFrom of main.go returns the earliest candidate that matches the
\* text, and an error exactly when no candidate matches (an empty candidate
\* list included); a result without error is a candidate that matches.
C4_ParseFromFirstMatch ==
    (pc = "returned" /\ ver = "main_go" /\ call.op = "ParseFrom")
    => LET hits == { k \in DOMAIN call.items : MatchesV2(companion, call.v, call.items[k]) }
       IN  /\ (call.err = NoRunErr) <=> (hits # {})
           /\ call.err = NoRunErr =>
                \E k \in hits : /\ call.found = call.items[k]
                                /\ \A j \in hits : k <= j

\* C5: two values whose serialized forms differ only in letter case make
\* processEnum fail: after a successful processEnum no two serialized forms
\* are different strings that are equal ignoring case.
C5_SerializedDistinctIgnoringCase ==
    pc = "resolved"
    => \A j, k \in Declared :
          enum.Values[j].Serialized # enum.Values[k].Serialized
          => ToLower(enum.Values[j].Serialized) # ToLower(enum.Values[k].Serialized)

\* C6: after a successful processEnum the resolved names are pairwise
\* distinct (two equal names make processEnum fail).
C6_NamesDistinct ==
    pc = "resolved"
    => \A j, k \in Declared : enum.Values[j].Name = enum.Values[k].Name => j = k

\* the values of the loaded specification with neither name nor serialized
Invalids == { k \in Supplied :
                loaded.Values[k].Name = <<>> /\ loaded.Values[k].Serialized = <<>> }

FirstInvalid == CHOOSE k \in Invalids : \A j \in Invalids : k <= j

Returned == pc \in {"resolved", "failed"}

\* C7 as claimed: when the value at index i is the first one with both name
\* and serialized empty, processEnum returns the error naming index i; when
\* there is none, it never returns that error.
C7_InvalidValueIndex_Original ==
    Returned =>
        IF Invalids # {}
        THEN err = [kind |-> "InvalidValue", index |-> FirstInvalid - 1]
        ELSE err.kind # "InvalidValue"

\* every strategy the specification configures is one caser.Converter knows
StrategiesKnown ==
    /\ loaded.SerializeType \in {""} \cup KnownStrategies
    /\ loaded.SerializeValue \in {""} \cup KnownStrategies

\* C7 (amended): when processEnum reaches the loop over the values (always
\* in main.go; in part_000 when the configured strategies are known), and
\* the value at index i is the first one with both name and serialized
\* empty, processEnum returns the error naming index i; when there is no
\* such value, it never returns that error.
C7_InvalidValueIndex ==
    Returned =>
        IF Invalids # {}
        THEN (ver = "main_go" \/ StrategiesKnown)
             => err = [kind |-> "InvalidValue", index |-> FirstInvalid - 1]
        ELSE err.kind # "InvalidValue"

\* C7 witness: the second value is the first invalid one, it has parseFrom
\* entries, and processEnum has returned the error for index 1
C7_Witness ==
    /\ pc = "failed"
    /\ Invalids # {} /\ FirstInvalid = 2
    /\ loaded.Values[2].ParseFrom # <<>>
    /\ err = [kind |-> "InvalidValue", index |-> 1]

\* C8: part_000: a value with serialized supplied and name absent gets the
\* name RemoveSpace(RemoveSymbols(valueConverter(serialized))), where
\* valueConverter is the configured serialize.value strategy or the
\* identity, and typeConverter is never applied to that value.
C8_NameFromSerialized ==
    (ver = "part_000" /\ Returned)
    => \A k \in Supplied :
          (loaded.Values[k].Name = <<>> /\ loaded.Values[k].Serialized # <<>>)
          => /\ (k - 1) \notin typeConv
             /\ pc = "resolved" =>
                  enum.Values[k].Name =
                    RemoveSpace(RemoveSymbols(
                      IF loaded.SerializeValue = ""
                      THEN loaded.Values[k].Serialized
                      ELSE Converter(loaded.SerializeValue, loaded.Values[k].Serialized)))

\* C8 witness: a serialized form with a space, converted by a configured
\* strategy and stripped, became the name
C8_Witness ==
    /\ ver = "part_000" /\ pc = "resolved"
    /\ loaded.SerializeValue = "phrase-to-pascal"
    /\ \E k \in Supplied :
          /\ loaded.Values[k].Name = <<>>
          /\ loaded.Values[k].Serialized = Txt("a b")
          /\ enum.Values[k].Name = Txt("AB")

\* C9: part_000: a value with name supplied and serialized absent gets the
\* serialized form typeConverter(name), exactly, where typeConverter is the
\* configured serialize.type strategy or phrase-to-pascal.
C9_SerializedFromName ==
    (ver = "part_000" /\ pc = "resolved")
    => \A k \in Supplied :
          (loaded.Values[k].Name # <<>> /\ loaded.Values[k].Serialized = <<>>)
          => enum.Values[k].Serialized =
                IF loaded.SerializeType = ""
                THEN PhraseToPascal(loaded.Values[k].Name)
                ELSE Converter(loaded.SerializeType, loaded.Values[k].Name)

\* C9 witness: a name with a symbol, converted by the configured strategy,
\* became the serialized form with the symbol still in it
C9_Witness ==
    /\ ver = "part_000" /\ pc = "resolved"
    /\ loaded.SerializeType = "pascal-to-kebab-lower"
    /\ \E k \in Supplied :
          /\ loaded.Values[k].Name = Txt("a-b")
          /\ loaded.Values[k].Serialized = <<>>
          /\ enum.Values[k].Serialized = Txt("a-b")
          /\ (k - 1) \in typeConv

\* C10: in both versions IsFrom(text, candidates) is true exactly when
\* ParseFrom(text, candidates) returns no error, and Is(text) is true
\* exactly when Parse(text) returns no error.
C10_IsIffParses ==
    pc = "returned" =>
        /\ call.op = "IsFrom" =>
              (call.ok <=> ParseFrom(ver, companion, call.v, call.items).err = NoRunErr)
        /\ call.op = "Is" =>
              (call.ok <=> Parse(ver, companion, call.v).err = NoRunErr)

\* C10 witness: IsFrom of part_000 answered true for a text that is none of
\* the candidates but equals one of them ignoring case
C10_Witness ==
    /\ pc = "returned" /\ ver = "part_000" /\ call.op = "IsFrom" /\ call.ok
    /\ Len(call.items) = 2
    /\ \A k \in DOMAIN call.items : call.v # call.items[k]

\* C11: when ParseFrom of main.go fails to match, its error carries the text
\* and, as the valid values, exactly the serialized form of each candidate,
\* one entry per candidate in candidate order.
C11_ErrorListsSerialized ==
    (pc = "returned" /\ ver = "main_go" /\ call.op = "ParseFrom"
        /\ call.err # NoRunErr /\ Unambiguous)
    => /\ call.err.v = call.v
       /\ call.err.xs = call.items

\* the text the adapter extracted from its input, when it extracted one
Extracted ==
    IF decode.op = "Scan" THEN ConvertValue(decode.input).s ELSE decode.input.s

ExtractionFailed ==
    IF decode.op = "Scan" THEN decode.input.kind \in {"nil", "bytes"}
    ELSE decode.input.kind = "bad"

\* C12: UnmarshalJSON, UnmarshalYAML and Scan: when extracting the string
\* fails, or the parser returns an error, the adapter returns that error
\* and leaves *e as it was; *e is assigned, to the parser's result, only
\* when the parser succeeds.
C12_DecodeFailureLeavesTarget ==
    pc = "decoded" =>
        IF ExtractionFailed
        THEN /\ decode.err # NoRunErr
             /\ decode.op # "Scan" => decode.err = ExtractErr
             /\ target = decode.before
        ELSE LET p == Parse(ver, companion, Extracted)
             IN  IF p.err # NoRunErr
                 THEN decode.err = p.err /\ target = decode.before
                 ELSE decode.err = NoRunErr /\ target = p.found

\* C12 witness: a value was decoded before, and a later decode failed in the
\* parser and left it
C12_Witness ==
    /\ pc = "decoded" /\ ~ExtractionFailed
    /\ decode.err # NoRunErr /\ decode.err # ExtractErr
    /\ target # <<>> /\ target = decode.before

\* C13: Scan checks in this order: a nil input fails with the null-value
\* error, without coercion or parsing; otherwise the input is coerced to
\* text and a failed coercion fails with the not-a-string error, without
\* parsing; only a coerced string reaches the parser. Neither of the two
\* errors is the unrecognized-value error a failed parse produces.
C13_ScanOrder ==
    (pc = "decoded" /\ decode.op = "Scan") =>
        IF decode.input.kind = "nil" \/ ConvertValue(decode.input).kind # "string"
        THEN /\ ~decode.parsed
             /\ decode.err # NoRunErr
             /\ decode.err.kind # "invalid"
        ELSE decode.parsed

\* C14: a resolution that fails because of the value at index i leaves the
\* EnumData as it was before processEnum started: no value before index i
\* is left rewritten and no derived default is left set.
C14_FailureLeavesEnum ==
    (pc = "failed" /\ err.kind = "InvalidValue") => enum = loaded

\* C15: in both versions, whenever processEnum returns, the number of the
\* values is what it was, every value still has the parseFrom list it was
\* loaded with at its position, and every serialized form the specification
\* supplied is unchanged there, whether or not the name was supplied too.
C15_SuppliedSerializedKept ==
    Returned =>
        /\ Len(enum.Values) = Len(loaded.Values)
        /\ \A k \in Supplied :
              /\ enum.Values[k].ParseFrom = loaded.Values[k].ParseFrom
              /\ loaded.Values[k].Serialized # <<>>
                 => enum.Values[k].Serialized = loaded.Values[k].Serialized

\* C15 witness: main.go has resolved two values; the first came with a name
\* and a serialized form that both hold a symbol and with a parseFrom list,
\* and its name was rewritten; the second came with a serialized form only
C15_Witness ==
    /\ pc = "resolved" /\ ver = "main_go" /\ Len(loaded.Values) = 2
    /\ loaded.Values[1].Name = Txt("a-b")
    /\ loaded.Values[1].Serialized = Txt("a-b")
    /\ loaded.Values[1].ParseFrom # <<>>
    /\ enum.Values[1].Name # loaded.Values[1].Name
    /\ loaded.Values[2].Name = <<>>
    /\ enum.Values[2].Name # <<>>

\* C16: in both versions, after a successful processEnum the name of every
\* value is non-empty and holds neither a symbol nor a whitespace character.
C16_NamesNormalised ==
    pc = "resolved" =>
        \A k \in Declared :
            /\ enum.Values[k].Name # <<>>
            /\ \A m \in DOMAIN enum.Values[k].Name :
                  IsLetterCh(enum.Values[k].Name[m])

\* C17 as claimed: after a successful processEnum each of package, type and
\* struct name is what the specification supplied, or, where it supplied
\* none, the name derived from the output path.
C17_DefaultsFromOutputPath_Original ==
    pc = "resolved" =>
        /\ enum.Package = IF loaded.Package # <<>> THEN loaded.Package
                          ELSE PackageOf(enum.OutputPath)
        /\ enum.Type = IF loaded.Type # <<>> THEN loaded.Type
                       ELSE TypeOf(enum.OutputPath)
        /\ enum.Struct = IF loaded.Struct # <<>> THEN loaded.Struct
                         ELSE Plural(TypeOf(enum.OutputPath))

\* C17 (amended): whenever processEnum returns, each of package, type and
\* struct name the specification supplied is exactly as supplied, whatever
\* the other two are; after a successful processEnum a package or type name
\* it did not supply is the one derived from the output path, and a struct
\* name it did not supply is the plural of the type name, supplied or
\* derived.
C17_DefaultsOnlyWhenEmpty ==
    /\ Returned =>
        /\ loaded.Package # <<>> => enum.Package = loaded.Package
        /\ loaded.Type # <<>> => enum.Type = loaded.Type
        /\ loaded.Struct # <<>> => enum.Struct = loaded.Struct
    /\ pc = "resolved" =>
        /\ loaded.Package = <<>> => enum.Package = PackageOf(enum.OutputPath)
        /\ loaded.Type = <<>> => enum.Type = TypeOf(enum.OutputPath)
        /\ loaded.Struct = <<>> => enum.Struct = Plural(enum.Type)

\* C17 witness: the specification supplied the type name only; processEnum
\* succeeded, kept it, derived the package name from the directory of the
\* output path and the struct name from the supplied type name, which is
\* not the type name of the output path
C17_Witness ==
    /\ pc = "resolved"
    /\ loaded.Type # <<>> /\ loaded.Package = <<>> /\ loaded.Struct = <<>>
    /\ loaded.OutputPath = <<>>
    /\ enum.Type = loaded.Type
    /\ enum.Package = <<"d", "_", "c">>
    /\ enum.Struct = Plural(loaded.Type)
    /\ enum.Struct # Plural(TypeOf(enum.OutputPath))

\* what a finished call returns: (found, err) of Parse and ParseFrom, the
\* flag of Is and IsFrom
ReturnsAlone(fr) ==
    CASE fr.op = "ParseFrom" ->
            [found |-> fr.found, err |-> fr.err] = ParseFromV2(companion, fr.v, fr.items)
      [] fr.op = "Parse" ->
            [found |-> fr.found, err |-> fr.err] = ParseV2(companion, fr.v)
      [] fr.op = "IsFrom" ->
            (fr.err = NoRunErr) = IsFromV2(companion, fr.v, fr.items)
      [] fr.op = "Is" ->
            (fr.err = NoRunErr) = IsV2(companion, fr.v)

\* C18: once the companion main.go generates is initialised, no step of
\* Parse, ParseFrom, Is or IsFrom changes its parseMap or its declared
\* values, and every call that finishes, whatever the other thread did in
\* between, returns what the same call returns when it runs alone.
C18_UniverseReadOnly ==
    /\ [][pc = "ready" => companion' = companion]_vars
    /\ [](\A t \in Threads : threads[t].phase = "done" => ReturnsAlone(threads[t]))

\* C18 witness: one thread has finished a ParseFrom that skipped an
\* undeclared candidate and found a value by its alias, while the other is
\* between the loop and the error of a Parse that finds nothing
C18_Witness ==
    /\ threads["t1"].phase = "done" /\ threads["t1"].op = "ParseFrom"
    /\ threads["t1"].i = 2 /\ threads["t1"].found # <<>>
    /\ threads["t1"].v = Txt("d")
    /\ threads["t2"].phase = "errf" /\ threads["t2"].op = "Parse"

\* C19: processWrite removes or changes a file that exists at the output
\* path only when Overwrite is set: with the file there and Overwrite not
\* set it returns no error and leaves the file as it is; with no file
\* there, or with Overwrite set, a return without error leaves the file
\* holding exactly the generated bytes.
C19_WriteRespectsOverwrite ==
    [][pc = "resolved" =>
        /\ (fs.exists /\ fs' # fs) => enum.Overwrite
        /\ (fs.exists /\ ~enum.Overwrite) => (fs' = fs /\ pc' = "written")
        /\ ((~fs.exists \/ enum.Overwrite) /\ pc' = "written")
            => fs' = FileWith(processTemplate(enum))]_vars

\* C19 witness: processWrite has returned without error for a definition
\* with values and without Overwrite, and the old file is still there
C19_Witness ==
    /\ pc = "written" /\ ~enum.Overwrite /\ Declared # {}
    /\ fs = OldFile

\* C19 witness of the other case: processWrite has returned without error
\* for a definition with Overwrite set and the file holds the generated
\* bytes
C19_WitnessWritten ==
    /\ pc = "written" /\ enum.Overwrite /\ Declared # {}
    /\ fs = FileWith(processTemplate(enum))

=============================================================================
